---- MODULE Spec2Model ----
(***************************************************************************)
(* i3-snapshot (src/src/main.cpp): capture walks the i3 container tree and *)
(* writes one line per window; restore reads such lines from stdin and     *)
(* sends two i3 commands per record.                                       *)
(*                                                                         *)
(* Strings are sequences of byte values (std::string); literal pieces of   *)
(* the program's text are kept as TLA+ strings.                            *)
(***************************************************************************)
EXTENDS Integers, Sequences, FiniteSets

VARIABLES
    pc,          \* "walk" (findWindows running), "restore" (while loop of main), "exited"
    opts,        \* CommandLineOptions
    tree,        \* *i3connection.get_tree(): sequence of containers, tree[1] is the root
    stack,       \* containers whose findWindows call is still to come, next one first
    treeState,   \* TreeState
    visited,     \* history: containers findWindows was called on, in call order
    emitted,     \* history: per line written for a window, the container and the values streamed
    cout,        \* lines written to stdout (each without its endl)
    cerr,        \* lines written to stderr
    cin,         \* std::cin: [buf, pos, eof, fail]
    loopVars,    \* outputNameEnc, workspaceNameEnc, workspaceIdStr, windowIdStr, windowNameEnc
    snapshot,    \* history: the values capture wrote into the lines now on stdin
    applied,     \* history: the arguments of every moveWindow call and its result
    sent,        \* history: every i3conn.send_command call: [cmd, which, ok, call, echoed]
    exitCode     \* exit status of the process once pc = "exited"

vars == <<pc, opts, tree, stack, treeState, visited, emitted, cout, cerr, cin, loopVars,
          snapshot, applied, sent, exitCode>>

-----------------------------------------------------------------------------
(* Bounds of the model *)

\* containers in a tree whose shape is explored (InitWalk), root included
MaxNodes == 5
\* containers in a tree whose names are explored (InitCapture), root included
MaxNamedNodes == 4
\* lines of a snapshot fed to restore
MaxRecords == 2

-----------------------------------------------------------------------------
(* Characters *)

\* the " " between the fields of a line
SP == 32
\* the newline endl writes
LF == 10

\* std::isspace in the "C" locale, which operator>> uses to delimit a string:
\* space, \t \n \v \f \r
IsSpace(ch) == ch \in {SP, LF, 9, 11, 12, 13}

IsDigit(ch) == ch >= 48 /\ ch <= 57

RECURSIVE to_string(_)
\* std::to_string / operator<< of a size_t: decimal digits, no padding
to_string(n) ==
    IF n < 10 THEN <<48 + n>> ELSE to_string(n \div 10) \o <<48 + (n % 10)>>

-----------------------------------------------------------------------------
(* base64.h: base64_encode / base64_decode.  The header is included by     *)
(* main.cpp but its code is not among the sources; it is modelled as the   *)
(* standard alphabet with '=' padding, decoding the longest prefix of      *)
(* alphabet characters.                                                    *)

\* the character of a 6-bit value: A-Z a-z 0-9 + /
base64_char(v) ==
    IF v < 26 THEN 65 + v
    ELSE IF v < 52 THEN 97 + (v - 26)
    ELSE IF v < 62 THEN 48 + (v - 52)
    ELSE IF v = 62 THEN 43 ELSE 47

is_base64(ch) ==
    \/ (ch >= 65 /\ ch <= 90)
    \/ (ch >= 97 /\ ch <= 122)
    \/ IsDigit(ch)
    \/ ch = 43
    \/ ch = 47

\* the 6-bit value of an alphabet character
base64_find(ch) ==
    IF ch >= 65 /\ ch <= 90 THEN ch - 65
    ELSE IF ch >= 97 /\ ch <= 122 THEN ch - 97 + 26
    ELSE IF IsDigit(ch) THEN ch - 48 + 52
    ELSE IF ch = 43 THEN 62 ELSE 63

RECURSIVE base64_encode(_)
base64_encode(s) ==
    IF Len(s) = 0 THEN <<>>
    ELSE IF Len(s) = 1 THEN
        << base64_char(s[1] \div 4), base64_char((s[1] % 4) * 16), 61, 61 >>
    ELSE IF Len(s) = 2 THEN
        << base64_char(s[1] \div 4),
           base64_char((s[1] % 4) * 16 + (s[2] \div 16)),
           base64_char((s[2] % 16) * 4), 61 >>
    ELSE
        << base64_char(s[1] \div 4),
           base64_char((s[1] % 4) * 16 + (s[2] \div 16)),
           base64_char((s[2] % 16) * 4 + (s[3] \div 64)),
           base64_char(s[3] % 64) >> \o base64_encode(SubSeq(s, 4, Len(s)))

RECURSIVE Base64Prefix(_)
\* the characters base64_decode consumes: it stops at '=' or at the first
\* character outside the alphabet
Base64Prefix(s) ==
    IF Len(s) = 0 \/ ~is_base64(s[1]) THEN <<>>
    ELSE <<s[1]>> \o Base64Prefix(Tail(s))

RECURSIVE Base64Bytes(_)
\* 4 characters give 3 bytes; a last group of i characters gives i - 1 bytes
Base64Bytes(p) ==
    IF Len(p) <= 1 THEN <<>>
    ELSE LET c0 == base64_find(p[1])
             c1 == base64_find(p[2])
             b0 == (c0 * 4 + (c1 \div 16)) % 256
         IN IF Len(p) = 2 THEN <<b0>>
            ELSE LET c2 == base64_find(p[3])
                     b1 == ((c1 % 16) * 16 + (c2 \div 4)) % 256
                 IN IF Len(p) = 3 THEN <<b0, b1>>
                    ELSE LET c3 == base64_find(p[4])
                             b2 == ((c2 % 4) * 64 + c3) % 256
                         IN <<b0, b1, b2>> \o Base64Bytes(SubSeq(p, 5, Len(p)))

base64_decode(s) == Base64Bytes(Base64Prefix(s))

-----------------------------------------------------------------------------
(* Command line *)

I3_ID == "I3_ID"
WINDOW_TITLE == "WINDOW_TITLE"

\* parseOptions over the flags given (each flag only sets its field, so the
\* order and repetition of flags do not matter); -h, -v and unknown flags
\* exit before anything runs and are left out
parseOptions(argv) ==
    [ debug            |-> "-d" \in argv,
      failFast         |-> ~("-c" \in argv),
      forceOutputMode  |-> "-o" \in argv,
      encodeStrings    |-> ~("-r" \in argv),
      windowIdentifier |-> IF "-t" \in argv THEN WINDOW_TITLE ELSE I3_ID ]

-----------------------------------------------------------------------------
(* The i3 container tree: i3ipc::container_t.  tree[i] is a container with *)
(* its type, name, id, xwindow_id and the index of its parent (0 for the   *)
(* root); c.nodes of a container are its children in increasing index.     *)
(* Containers are numbered in depth-first pre-order, so every ordered tree *)
(* is enumerated once.                                                     *)

RECURSIVE IsAncestorOrSelf(_, _, _)
IsAncestorOrSelf(par, a, d) ==
    \/ a = d
    \/ d > 1 /\ IsAncestorOrSelf(par, a, par[d])

\* parent arrays of the ordered trees with n containers
Parents(n) ==
    { par \in [1..n -> 0..(n - 1)] :
        /\ par[1] = 0
        /\ \A i \in 2..n : par[i] >= 1 /\ IsAncestorOrSelf(par, par[i], i - 1) }

\* what a container other than the root can be: every type findWindows tells
\* apart, a con being a window (xwindow_id # 0) or not
Shapes == { "output", "workspace", "dockarea", "con", "window" }

\* the same types without those findWindows passes by, with the names varied:
\* a workspace name with a space, a window title with a space, no title
NamedShapes == { "output", "workspace", "workspace_sp",
                 "window", "window_sp", "window_noname" }

\* the container of shape sh at index i, child of p
Container(i, sh, p) ==
    [ type |-> CASE sh = "root" -> "root"
                 [] sh = "output" -> "output"
                 [] sh \in {"workspace", "workspace_sp"} -> "workspace"
                 [] sh = "dockarea" -> "dockarea"
                 [] OTHER -> "con",
      name |-> CASE sh = "root" -> <<114, 111, 111, 116>>        \* "root"
                 [] sh = "output" -> <<111, 48 + i>>             \* "o<i>"
                 [] sh = "workspace" -> <<119, 48 + i>>          \* "w<i>"
                 [] sh = "workspace_sp" -> <<119, SP, 48 + i>>   \* "w <i>"
                 [] sh = "dockarea" -> <<100>>                   \* "d"
                 [] sh = "con" -> <<99>>                         \* "c"
                 [] sh = "window" -> <<116>>                     \* "t"
                 [] sh = "window_sp" -> <<97, SP, 98>>           \* "a b"
                 [] OTHER -> <<>>,                               \* ""
      id |-> 10 + i,
      xwindow_id |-> IF sh \in {"window", "window_sp", "window_noname"} THEN 1 ELSE 0,
      parent |-> p ]

\* the tree with n containers, parent array par and shapes sh
TreeOf(n, par, sh) ==
    [i \in 1..n |-> Container(i, IF i = 1 THEN "root" ELSE sh[i], par[i])]

\* c.nodes: the children of container i, in the tree's order
nodes(t, i) == SelectSeq([k \in 1..Len(t) |-> k], LAMBDA k : t[k].parent = i)

-----------------------------------------------------------------------------
(* Capture: findWindows *)

isWindow(c) == c.type = "con" /\ c.xwindow_id # 0

\* faulty variant: dock areas are walked like any container
isValidParent_Always(c) == TRUE

isValidParent(c) == c.type # "dockarea"

\* the line findWindows writes for a window (main.cpp:117), without its endl
Line(outputEncoded, workspaceEncoded, workspaceId, id, windowEncoded) ==
    outputEncoded \o <<SP>> \o workspaceEncoded \o <<SP>> \o to_string(workspaceId)
        \o <<SP>> \o to_string(id) \o <<SP>> \o windowEncoded

\* the three name fields as written: base64 unless -r was given
Encoded(name, encodeStrings) ==
    IF encodeStrings THEN base64_encode(name) ELSE name

\* "Invalid tree state, aborting."
InvalidTreeStateMsg ==
    <<73, 110, 118, 97, 108, 105, 100, 32, 116, 114, 101, 101, 32, 115, 116, 97,
      116, 101, 44, 32, 97, 98, 111, 114, 116, 105, 110, 103, 46>>

\* faulty variant: only the output is required
InvalidTreeState_OutputOnly(ts) == Len(ts.outputName) = 0

\* the window check of findWindows fails: exit(1)
InvalidTreeState(ts) == Len(ts.outputName) = 0 \/ Len(ts.workspaceName) = 0

\* faulty variant: an output or workspace seen after the first one of its
\* type leaves the state as it is
Track_KeepFirst(ts, c) ==
    IF c.type = "output"
    THEN IF ts.outputName = <<>> THEN [ts EXCEPT !.outputName = c.name] ELSE ts
    ELSE IF c.type = "workspace"
         THEN IF ts.workspaceName = <<>>
              THEN [ts EXCEPT !.workspaceName = c.name, !.workspaceId = c.id]
              ELSE ts
         ELSE ts

\* faulty variant: a workspace sets the name, and the id only while it is 0
Track_IdOnce(ts, c) ==
    IF c.type = "output" THEN [ts EXCEPT !.outputName = c.name]
    ELSE IF c.type = "workspace"
         THEN [ts EXCEPT !.workspaceName = c.name,
                         !.workspaceId = IF ts.workspaceId = 0 THEN c.id ELSE @]
         ELSE ts

\* faulty variant: a workspace sets the name and leaves the id
Track_NameOnly(ts, c) ==
    IF c.type = "output" THEN [ts EXCEPT !.outputName = c.name]
    ELSE IF c.type = "workspace" THEN [ts EXCEPT !.workspaceName = c.name]
         ELSE ts

\* the TreeState after findWindows has looked at c (main.cpp:86-90)
Track(ts, c) ==
    IF c.type = "output" THEN [ts EXCEPT !.outputName = c.name]
    ELSE IF c.type = "workspace"
         THEN [ts EXCEPT !.workspaceName = c.name, !.workspaceId = c.id]
         ELSE ts

RECURSIVE Reversed(_)
Reversed(q) == IF q = <<>> THEN <<>> ELSE Append(Reversed(Tail(q)), Head(q))

\* faulty variant: the children are walked last to first
Recurse_Reversed(t, i) == IF isValidParent(t[i]) THEN Reversed(nodes(t, i)) ELSE <<>>

\* the children findWindows recurses into after its own work on c
Recurse(t, i) == IF isValidParent(t[i]) THEN nodes(t, i) ELSE <<>>

NoCin == [buf |-> <<>>, pos |-> 1, eof |-> FALSE, fail |-> FALSE]
NoLoopVars == [k \in 1..5 |-> <<>>]

NoTreeState == [outputName |-> <<>>, workspaceName |-> <<>>, workspaceId |-> 0]

\* what main leaves untouched in capture mode
NoRestore ==
    /\ cin = NoCin
    /\ loopVars = NoLoopVars
    /\ snapshot = [records |-> <<>>, encoded |-> TRUE]
    /\ applied = <<>>
    /\ sent = <<>>
    /\ cerr = <<>>

\* main in capture mode (stdin is a terminal): the tree is fetched and
\* findWindows is called on its root with a fresh TreeState
CaptureStart(t) ==
    /\ pc = "walk"
    /\ tree = t
    /\ stack = <<1>>
    /\ treeState = NoTreeState
    /\ visited = <<>>
    /\ emitted = <<>>
    /\ cout = <<>>
    /\ exitCode = 0
    /\ NoRestore

\* captures of trees of every shape, with the default options
InitWalk ==
    /\ opts = parseOptions({})
    /\ \E n \in 1..MaxNodes : \E par \in Parents(n), sh \in [2..n -> Shapes] :
          CaptureStart(TreeOf(n, par, sh))

\* captures of trees with varied names, with and without -r
InitCapture ==
    /\ \E argv \in SUBSET {"-r"} : opts = parseOptions(argv)
    /\ \E n \in 1..MaxNamedNodes : \E par \in Parents(n), sh \in [2..n -> NamedShapes] :
          CaptureStart(TreeOf(n, par, sh))

\* one call of findWindows, on the container at the head of the stack
FindWindows ==
    /\ pc = "walk"
    /\ stack # <<>>
    /\ LET i == Head(stack)
           c == tree[i]
       IN /\ visited' = Append(visited, i)
          /\ treeState' = Track(treeState, c)
          /\ IF c.type # "output" /\ c.type # "workspace" /\ isWindow(c) THEN
                IF InvalidTreeState(treeState) THEN
                    /\ cout' = Append(cout, InvalidTreeStateMsg)
                    /\ pc' = "exited"
                    /\ exitCode' = 1
                    /\ UNCHANGED <<stack, emitted>>
                ELSE
                    /\ cout' = Append(cout,
                          Line(Encoded(treeState.outputName, opts.encodeStrings),
                               Encoded(treeState.workspaceName, opts.encodeStrings),
                               treeState.workspaceId, c.id,
                               Encoded(c.name, opts.encodeStrings)))
                    /\ emitted' = Append(emitted,
                          [node |-> i,
                           outputName |-> treeState.outputName,
                           workspaceName |-> treeState.workspaceName,
                           workspaceId |-> treeState.workspaceId,
                           windowId |-> c.id,
                           windowTitle |-> c.name])
                    /\ UNCHANGED <<pc, exitCode>>
                    /\ stack' = Recurse(tree, i) \o Tail(stack)
             ELSE
                /\ UNCHANGED <<cout, emitted, pc, exitCode>>
                /\ stack' = Recurse(tree, i) \o Tail(stack)
    /\ UNCHANGED <<opts, tree, cerr, cin, loopVars, snapshot, applied, sent>>

\* findWindows has returned to main, which returns 0
CaptureReturn ==
    /\ pc = "walk"
    /\ stack = <<>>
    /\ pc' = "exited"
    /\ exitCode' = 0
    /\ UNCHANGED <<opts, tree, stack, treeState, visited, emitted, cout, cerr, cin,
                   loopVars, snapshot, applied, sent>>

-----------------------------------------------------------------------------
(* Restore: the while loop of main and moveWindow *)

RECURSIVE SkipSpace(_, _)
\* the first position at or after pos that holds no whitespace
SkipSpace(buf, pos) ==
    IF pos <= Len(buf) /\ IsSpace(buf[pos]) THEN SkipSpace(buf, pos + 1) ELSE pos

RECURSIVE TokenEnd(_, _)
\* the first position at or after pos that holds whitespace, or Len(buf) + 1
TokenEnd(buf, pos) ==
    IF pos <= Len(buf) /\ ~IsSpace(buf[pos]) THEN TokenEnd(buf, pos + 1) ELSE pos

\* cin >> str: [cin |-> the stream afterwards, str |-> the string afterwards].
\* A stream that is not good() only gets failbit and leaves str alone; so
\* does one that has only whitespace left, which also sets eofbit.  A token
\* that ends with the buffer sets eofbit alone.
Extract(cs, str) ==
    IF cs.eof \/ cs.fail THEN [cin |-> [cs EXCEPT !.fail = TRUE], str |-> str]
    ELSE LET from == SkipSpace(cs.buf, cs.pos)
             to == TokenEnd(cs.buf, from)
         IN IF from > Len(cs.buf)
            THEN [cin |-> [cs EXCEPT !.pos = from, !.eof = TRUE, !.fail = TRUE],
                  str |-> str]
            ELSE [cin |-> [cs EXCEPT !.pos = to, !.eof = (to > Len(cs.buf))],
                  str |-> SubSeq(cs.buf, from, to - 1)]

RECURSIVE ExtractAll(_, _, _)
\* cin >> v[k] >> ... >> v[5]: [cin, vars]
ExtractAll(cs, v, k) ==
    IF k > Len(v) THEN [cin |-> cs, vars |-> v]
    ELSE LET r == Extract(cs, v[k])
         IN ExtractAll(r.cin, [v EXCEPT ![k] = r.str], k + 1)

RECURSIVE DigitsValue(_, _, _)
\* the value of the digits of s from position k on, up to the first non-digit
DigitsValue(s, k, acc) ==
    IF k <= Len(s) /\ IsDigit(s[k]) THEN DigitsValue(s, k + 1, acc * 10 + (s[k] - 48))
    ELSE acc

\* std::stoul(str): leading whitespace, an optional sign, then decimal digits;
\* what follows the digits is ignored.  -1 stands for the invalid_argument it
\* throws when there is no digit.  (A '-' sign negates modulo 2^64 and more
\* than 20 digits throw out_of_range: no field the model reads has a '-' or
\* that many digits.)
stoul(str) ==
    LET from == SkipSpace(str, 1)
        signed == from <= Len(str) /\ str[from] = 43
        first == IF signed THEN from + 1 ELSE from
    IN IF first <= Len(str) /\ IsDigit(str[first])
       THEN DigitsValue(str, first, 0)
       ELSE -1

\* faulty variant: the workspace is selected by its id whatever the addressing option
wsCmd_ById(outputName, workspaceName, workspaceId, o) ==
    <<91, 99, 111, 110, 95, 105, 100, 61>> \o to_string(workspaceId)
    \o <<93, 32, 109, 111, 118, 101, 32, 119, 111, 114, 107, 115, 112, 97, 99,
         101, 32, 116, 111, 32, 111, 117, 116, 112, 117, 116, 32>>
    \o outputName

\* the workspace command of moveWindow (main.cpp:141-146)
wsCmd(outputName, workspaceName, workspaceId, o) ==
    IF o.windowIdentifier = I3_ID
    THEN \* "[con_id=" id "] move workspace to output " output
         <<91, 99, 111, 110, 95, 105, 100, 61>> \o to_string(workspaceId)
         \o <<93, 32, 109, 111, 118, 101, 32, 119, 111, 114, 107, 115, 112, 97, 99,
              101, 32, 116, 111, 32, 111, 117, 116, 112, 117, 116, 32>>
         \o outputName
    ELSE \* "[workspace=\"" name "\"] move workspace to output " output
         <<91, 119, 111, 114, 107, 115, 112, 97, 99, 101, 61, 34>> \o workspaceName
         \o <<34, 93, 32, 109, 111, 118, 101, 32, 119, 111, 114, 107, 115, 112, 97,
              99, 101, 32, 116, 111, 32, 111, 117, 116, 112, 117, 116, 32>>
         \o outputName

\* the window command of moveWindow (main.cpp:153-159)
windowCmd(windowId, workspaceName, windowTitle, o) ==
    IF o.windowIdentifier = I3_ID
    THEN \* "[con_id=" id "] move container to workspace \"" name "\""
         <<91, 99, 111, 110, 95, 105, 100, 61>> \o to_string(windowId)
         \o <<93, 32, 109, 111, 118, 101, 32, 99, 111, 110, 116, 97, 105, 110, 101,
              114, 32, 116, 111, 32, 119, 111, 114, 107, 115, 112, 97, 99, 101, 32, 34>>
         \o workspaceName \o <<34>>
    ELSE \* "[title=\"" title "\"] move container to workspace \"" name "\""
         <<91, 116, 105, 116, 108, 101, 61, 34>> \o windowTitle
         \o <<34, 93, 32, 109, 111, 118, 101, 32, 99, 111, 110, 116, 97, 105, 110,
              101, 114, 32, 116, 111, 32, 119, 111, 114, 107, 115, 112, 97, 99, 101,
              32, 34>>
         \o workspaceName \o <<34>>

\* "i3-msg " cmd
Echo(cmd) == <<105, 51, 45, 109, 115, 103, 32>> \o cmd

\* faulty variant: the window command is sent whatever the workspace command returned
moveWindow_NoEarlyReturn(windowId, outputName, workspaceName, workspaceId, windowTitle, o, replies) ==
    LET ws == wsCmd(outputName, workspaceName, workspaceId, o)
        win == windowCmd(windowId, workspaceName, windowTitle, o)
    IN [ calls |-> << [cmd |-> ws, which |-> "workspace", ok |-> replies[1],
                       echoed |-> IF o.debug THEN 1 ELSE 0],
                      [cmd |-> win, which |-> "window", ok |-> replies[2],
                       echoed |-> IF o.debug THEN 2 ELSE 0] >>,
         echo |-> IF o.debug THEN <<Echo(ws), Echo(win)>> ELSE <<>>,
         result |-> replies[1] /\ replies[2] ]

\* faulty variant: each command is echoed after it was submitted
moveWindow_EchoAfterSend(windowId, outputName, workspaceName, workspaceId, windowTitle, o, replies) ==
    LET ws == wsCmd(outputName, workspaceName, workspaceId, o)
        win == windowCmd(windowId, workspaceName, windowTitle, o)
        wsCall == [cmd |-> ws, which |-> "workspace", ok |-> replies[1], echoed |-> 0]
        winCall == [cmd |-> win, which |-> "window", ok |-> replies[2],
                    echoed |-> IF o.debug THEN 1 ELSE 0]
    IN IF ~replies[1]
       THEN [ calls |-> <<wsCall>>,
              echo |-> IF o.debug THEN <<Echo(ws)>> ELSE <<>>,
              result |-> FALSE ]
       ELSE [ calls |-> <<wsCall, winCall>>,
              echo |-> IF o.debug THEN <<Echo(ws), Echo(win)>> ELSE <<>>,
              result |-> replies[2] ]

\* moveWindow, given what send_command answers to the first and to the second
\* command: [calls |-> the send_command calls made, echo |-> the lines written
\* to cout, result |-> the value returned]; each call carries the number of
\* lines moveWindow had written to cout when the command was submitted
moveWindow(windowId, outputName, workspaceName, workspaceId, windowTitle, o, replies) ==
    LET ws == wsCmd(outputName, workspaceName, workspaceId, o)
        win == windowCmd(windowId, workspaceName, windowTitle, o)
        wsCall == [cmd |-> ws, which |-> "workspace", ok |-> replies[1],
                   echoed |-> IF o.debug THEN 1 ELSE 0]
        winCall == [cmd |-> win, which |-> "window", ok |-> replies[2],
                    echoed |-> IF o.debug THEN 2 ELSE 0]
    IN IF ~replies[1]
       THEN [ calls |-> <<wsCall>>,
              echo |-> IF o.debug THEN <<Echo(ws)>> ELSE <<>>,
              result |-> FALSE ]
       ELSE [ calls |-> <<wsCall, winCall>>,
              echo |-> IF o.debug THEN <<Echo(ws), Echo(win)>> ELSE <<>>,
              result |-> replies[2] ]

\* "Failed to move " windowId " (" windowName ")."
FailedToMove(windowId, windowName) ==
    <<70, 97, 105, 108, 101, 100, 32, 116, 111, 32, 109, 111, 118, 101, 32>>
    \o to_string(windowId) \o <<32, 40>> \o windowName \o <<41, 46>>

\* records a capture can have written: every output and workspace name is
\* non-empty, a window title may be empty or hold a space
Records ==
    { [outputName |-> <<111, 50>>, workspaceName |-> <<119, 51>>, workspaceId |-> 13,
       windowId |-> 14, windowTitle |-> <<116>>],
      [outputName |-> <<111, 50>>, workspaceName |-> <<119, SP, 51>>, workspaceId |-> 13,
       windowId |-> 15, windowTitle |-> <<97, SP, 98>>],
      [outputName |-> <<111, 50>>, workspaceName |-> <<119, 51>>, workspaceId |-> 13,
       windowId |-> 16, windowTitle |-> <<>>] }

Snapshots == UNION { [1..n -> Records] : n \in 0..MaxRecords }

RECURSIVE FileOf(_, _)
\* the file a capture writes for these records: each line and its endl
FileOf(recs, encodeStrings) ==
    IF Len(recs) = 0 THEN <<>>
    ELSE LET r == Head(recs)
         IN Line(Encoded(r.outputName, encodeStrings),
                 Encoded(r.workspaceName, encodeStrings),
                 r.workspaceId, r.windowId,
                 Encoded(r.windowTitle, encodeStrings))
            \o <<LF>> \o FileOf(Tail(recs), encodeStrings)

RECURSIVE JoinFields(_)
\* the fields of a line with a space between them
JoinFields(fields) ==
    IF Len(fields) = 0 THEN <<>>
    ELSE IF Len(fields) = 1 THEN fields[1]
    ELSE fields[1] \o <<SP>> \o JoinFields(Tail(fields))

\* lines of a file that was edited by hand: a line as capture writes it
\* ("bzI= dzM= 13 14 dA=="), one whose workspace id is no number ("x"), one
\* without its fifth field
EditedLines ==
    { JoinFields(<<base64_encode(<<111, 50>>), base64_encode(<<119, 51>>),
                   to_string(13), to_string(14), base64_encode(<<116>>)>>),
      JoinFields(<<base64_encode(<<111, 50>>), base64_encode(<<119, 51>>),
                   <<120>>, to_string(14), base64_encode(<<116>>)>>),
      JoinFields(<<base64_encode(<<111, 50>>), base64_encode(<<119, 51>>),
                   to_string(13), to_string(14)>>) }

RECURSIVE FileOfLines(_)
\* the lines, each with its newline
FileOfLines(lines) ==
    IF Len(lines) = 0 THEN <<>>
    ELSE Head(lines) \o <<LF>> \o FileOfLines(Tail(lines))

\* main in restore mode reading the file: the loop is about to start
RestoreStart(file, snap) ==
    /\ pc = "restore"
    /\ snapshot = snap
    /\ cin = [buf |-> file, pos |-> 1, eof |-> FALSE, fail |-> FALSE]
    /\ tree = <<>>
    /\ stack = <<>>
    /\ treeState = NoTreeState
    /\ visited = <<>>
    /\ emitted = <<>>
    /\ cout = <<>>
    /\ cerr = <<>>
    /\ loopVars = NoLoopVars
    /\ applied = <<>>
    /\ sent = <<>>
    /\ exitCode = 0

\* main in restore mode (no -o, stdin is not a terminal): stdin holds a file
\* written by a capture, with or without -r, or a file edited by hand (for
\* which the snapshot history holds no record)
InitRestore ==
    /\ \E argv \in SUBSET {"-c", "-d", "-t", "-r"} : opts = parseOptions(argv)
    /\ \/ \E recs \in Snapshots, captureEncoded \in BOOLEAN :
             RestoreStart(FileOf(recs, captureEncoded),
                          [records |-> recs, encoded |-> captureEncoded])
       \/ \E n \in 1..MaxRecords : \E lines \in [1..n -> EditedLines] :
             RestoreStart(FileOfLines(lines), [records |-> <<>>, encoded |-> FALSE])

\* faulty variant: a failure never ends the run
AbortOnFailure_Never(o) == FALSE

\* whether main returns 1 after a moveWindow that failed (main.cpp:253)
AbortOnFailure(o) == o.failFast

\* one iteration of the while loop of main (main.cpp:241-255)
RestoreIteration ==
    /\ pc = "restore"
    /\ ~cin.eof
    /\ LET x == ExtractAll(cin, loopVars, 1)
           outputName == base64_decode(x.vars[1])
           workspaceName == base64_decode(x.vars[2])
           workspaceId == stoul(x.vars[3])
           windowName == base64_decode(x.vars[5])
           windowId == stoul(x.vars[4])
       IN /\ cin' = x.cin
          /\ loopVars' = x.vars
          /\ IF workspaceId = -1 \/ windowId = -1 THEN
                \* stoul throws, nothing catches: std::terminate, abort()
                /\ pc' = "exited"
                /\ exitCode' = 134
                /\ UNCHANGED <<cout, cerr, applied, sent>>
             ELSE \E replies \in [1..2 -> BOOLEAN] :
                LET m == moveWindow(windowId, outputName, workspaceName, workspaceId,
                                    windowName, opts, replies)
                    call == Len(applied) + 1
                IN /\ applied' = Append(applied,
                          [outputName |-> outputName, workspaceName |-> workspaceName,
                           workspaceId |-> workspaceId, windowId |-> windowId,
                           windowTitle |-> windowName, result |-> m.result])
                   /\ sent' = sent \o [k \in 1..Len(m.calls) |->
                                          [cmd |-> m.calls[k].cmd,
                                           which |-> m.calls[k].which,
                                           ok |-> m.calls[k].ok,
                                           call |-> call,
                                           echoed |-> Len(cout) + m.calls[k].echoed]]
                   /\ cout' = cout \o m.echo
                   /\ IF m.result THEN UNCHANGED <<cerr, pc, exitCode>>
                      ELSE /\ cerr' = Append(cerr, FailedToMove(windowId, windowName))
                           /\ IF AbortOnFailure(opts)
                              THEN pc' = "exited" /\ exitCode' = 1
                              ELSE UNCHANGED <<pc, exitCode>>
    /\ UNCHANGED <<opts, tree, stack, treeState, visited, emitted, snapshot>>

\* the loop ends on cin.eof(); main returns 0 (main.cpp:258)
RestoreReturn ==
    /\ pc = "restore"
    /\ cin.eof
    /\ pc' = "exited"
    /\ exitCode' = 0
    /\ UNCHANGED <<opts, tree, stack, treeState, visited, emitted, cout, cerr, cin,
                   loopVars, snapshot, applied, sent>>

-----------------------------------------------------------------------------
(* Specifications *)

Init == InitCapture \/ InitRestore

Next ==
    \/ FindWindows
    \/ CaptureReturn
    \/ RestoreIteration
    \/ RestoreReturn

\* captures of named trees and restores of captured files
Spec == Init /\ [][Next]_vars

NextWalk ==
    \/ FindWindows
    \/ CaptureReturn

\* captures of trees of every shape
SpecWalk == InitWalk /\ [][NextWalk]_vars

-----------------------------------------------------------------------------
(* The container tree as the claims speak of it *)

RECURSIVE Above(_, _, _)
\* a is a proper ancestor of d
Above(t, a, d) ==
    /\ d > 1
    /\ (t[d].parent = a \/ Above(t, a, t[d].parent))

HasAncestor(t, d, type) == \E a \in 1..Len(t) : Above(t, a, d) /\ t[a].type = type

UnderDockarea(t, d) == HasAncestor(t, d, "dockarea")

WindowNode(t, d) == t[d].type = "con" /\ t[d].xwindow_id # 0

\* w is the nearest workspace above d
NearestWorkspace(t, w, d) ==
    /\ Above(t, w, d)
    /\ t[w].type = "workspace"
    /\ \A x \in 1..Len(t) :
          (Above(t, x, d) /\ t[x].type = "workspace") => (x = w \/ Above(t, x, w))

\* the children of d, first to last
ChildList(t, d) == SelectSeq([k \in 1..Len(t) |-> k], LAMBDA k : t[k].parent = d)

RECURSIVE PreOrder(_, _)
\* the containers of the subtrees rooted at the containers of q, depth-first
\* pre-order, children in the tree's order
PreOrder(t, q) ==
    IF q = <<>> THEN <<>>
    ELSE <<Head(q)>> \o PreOrder(t, ChildList(t, Head(q))) \o PreOrder(t, Tail(q))

\* whether a container of the type was visited before the k-th visit
VisitedBefore(k, type) == \E j \in 1..(k - 1) : tree[visited[j]].type = type

\* the container of the type visited last before the k-th visit, 0 if none
LastVisitedBefore(k, type) ==
    LET js == { j \in 1..(k - 1) : tree[visited[j]].type = type }
    IN IF js = {} THEN 0
       ELSE visited[CHOOSE j \in js : \A x \in js : x <= j]

\* the visit on which container d was walked
VisitOf(d) == CHOOSE k \in 1..Len(visited) : visited[k] = d

EmittedNodes == [k \in 1..Len(emitted) |-> emitted[k].node]

IsPrefix(p, q) == Len(p) <= Len(q) /\ p = SubSeq(q, 1, Len(p))

-----------------------------------------------------------------------------
(* Claims about capture (SpecWalk) *)

\* C5: no container below a dockarea is ever visited by the walk, and no
\* record is emitted for a window below a dockarea.
C5_DockareaExcluded ==
    /\ \A k \in 1..Len(visited) : ~UnderDockarea(tree, visited[k])
    /\ \A k \in 1..Len(emitted) : ~UnderDockarea(tree, emitted[k].node)

\* a finished walk of a tree with a window below a dockarea that has an output
\* and a workspace above it
C5_Witness ==
    /\ pc = "exited"
    /\ exitCode = 0
    /\ \E d \in 1..Len(tree) :
          /\ WindowNode(tree, d)
          /\ UnderDockarea(tree, d)
          /\ HasAncestor(tree, d, "output")
          /\ HasAncestor(tree, d, "workspace")

\* what C6 and its amendment say happens at the k-th visit: the walk stops
\* there with "Invalid tree state", exit code 1 and no record for the window
FailsAt(k) ==
    /\ pc = "exited"
    /\ exitCode = 1
    /\ k = Len(visited)
    /\ \A j \in 1..Len(emitted) : emitted[j].node # visited[k]
    /\ Len(cout) = Len(emitted) + 1
    /\ cout[Len(cout)] = InvalidTreeStateMsg

\* C6 as claimed: a visited window that has no output ancestor or no
\* workspace ancestor makes the capture fail at that window.
C6_NoAncestorFails ==
    \A k \in 1..Len(visited) :
        ( /\ WindowNode(tree, visited[k])
          /\ \/ ~HasAncestor(tree, visited[k], "output")
             \/ ~HasAncestor(tree, visited[k], "workspace") )
        => FailsAt(k)

\* C6 as amended: a visited window before which no output container or no
\* workspace container was visited (ancestor or not) makes the capture fail
\* at that window: no record for it, no later visit, exit code 1.
C6_NothingVisitedFails ==
    \A k \in 1..Len(visited) :
        ( /\ WindowNode(tree, visited[k])
          /\ \/ ~VisitedBefore(k, "output")
             \/ ~VisitedBefore(k, "workspace") )
        => FailsAt(k)

\* a capture that failed at a window reached after an output and before any
\* workspace, with containers of the tree left unvisited
C6_Witness ==
    /\ pc = "exited"
    /\ exitCode = 1
    /\ WindowNode(tree, visited[Len(visited)])
    /\ VisitedBefore(Len(visited), "output")
    /\ ~VisitedBefore(Len(visited), "workspace")
    /\ Len(visited) < Len(tree)

\* the record names an output above the window and the nearest workspace
\* above it
Encloses(r) ==
    /\ \E a \in 1..Len(tree) :
          /\ Above(tree, a, r.node)
          /\ tree[a].type = "output"
          /\ tree[a].name = r.outputName
    /\ \E w \in 1..Len(tree) :
          /\ NearestWorkspace(tree, w, r.node)
          /\ tree[w].name = r.workspaceName
          /\ tree[w].id = r.workspaceId

\* C7 as claimed: every emitted record carries the name of an output that is
\* an ancestor of the window and the name and id of the nearest workspace
\* that is an ancestor of the window.
C7_EnclosingOutputAndWorkspace ==
    \A k \in 1..Len(emitted) : Encloses(emitted[k])

\* C7 as amended: every emitted record carries the name of the output visited
\* last before the window and the name and id of the workspace visited last
\* before it; when those two are ancestors of the window, they are an
\* enclosing output and the nearest enclosing workspace.
C7_LastVisitedOutputAndWorkspace ==
    \A k \in 1..Len(emitted) :
        LET r == emitted[k]
            o == LastVisitedBefore(VisitOf(r.node), "output")
            w == LastVisitedBefore(VisitOf(r.node), "workspace")
        IN /\ o # 0
           /\ w # 0
           /\ r.outputName = tree[o].name
           /\ r.workspaceName = tree[w].name
           /\ r.workspaceId = tree[w].id
           /\ (Above(tree, o, r.node) /\ Above(tree, w, r.node)) => Encloses(r)

\* two records emitted, the second for a window below the output and the
\* workspace visited last
C7_Witness ==
    /\ Len(emitted) = 2
    /\ LET r == emitted[2]
       IN /\ Above(tree, LastVisitedBefore(VisitOf(r.node), "output"), r.node)
          /\ Above(tree, LastVisitedBefore(VisitOf(r.node), "workspace"), r.node)

\* every window of the tree has an output and a workspace above it
AllWindowsEnclosed(t) ==
    \A d \in 1..Len(t) :
        WindowNode(t, d) => HasAncestor(t, d, "output") /\ HasAncestor(t, d, "workspace")

\* the windows not below a dockarea, in depth-first pre-order
WindowsInOrder(t) ==
    SelectSeq(PreOrder(t, <<1>>), LAMBDA d : WindowNode(t, d) /\ ~UnderDockarea(t, d))

-----------------------------------------------------------------------------
(* Claims about restore and about the lines (Spec) *)

\* the send_command calls made by the j-th moveWindow call
CallsOf(j) == SelectSeq(sent, LAMBDA c : c.call = j)

\* the arguments of the moveWindow calls, as records of a snapshot
AppliedRecords ==
    [j \in 1..Len(applied) |->
        [outputName |-> applied[j].outputName,
         workspaceName |-> applied[j].workspaceName,
         workspaceId |-> applied[j].workspaceId,
         windowId |-> applied[j].windowId,
         windowTitle |-> applied[j].windowTitle]]

\* C1: a window command is only ever sent right after the workspace command
\* of the same moveWindow call, and only if that one returned success; a
\* moveWindow call whose workspace command failed sent nothing else and
\* returned failure.
C1_WindowMoveOnlyAfterWorkspaceMove ==
    /\ \A k \in 1..Len(sent) :
          sent[k].which = "window" =>
              /\ k > 1
              /\ sent[k - 1].which = "workspace"
              /\ sent[k - 1].call = sent[k].call
              /\ sent[k - 1].ok
    /\ \A j \in 1..Len(applied) :
          LET cs == CallsOf(j)
              a == applied[j]
          IN /\ Len(cs) >= 1
             /\ cs[1].which = "workspace"
             /\ cs[1].cmd = wsCmd(a.outputName, a.workspaceName, a.workspaceId, opts)
             /\ ~cs[1].ok => (Len(cs) = 1 /\ ~a.result)

\* one moveWindow call whose workspace command failed and one that went on
\* to its window command
C1_Witness ==
    /\ \E j \in 1..Len(applied) : ~CallsOf(j)[1].ok
    /\ \E k \in 1..Len(sent) : sent[k].which = "window"

\* C2: with failFast, a command that failed is the last command sent and the
\* process has exited with a non-zero code.
C2_FailFastStops ==
    opts.failFast =>
        \A k \in 1..Len(sent) :
            ~sent[k].ok => (k = Len(sent) /\ pc = "exited" /\ exitCode # 0)

\* a fail-fast run stopped by its first record, with a second record unread
C2_Witness ==
    /\ opts.failFast
    /\ Len(snapshot.records) = 2
    /\ Len(applied) = 1
    /\ ~applied[1].result
    /\ pc = "exited"

\* C3 as claimed: with -c, reading a file written with base64 names, a
\* failed record leaves the loop running, and once the process has exited its
\* code is non-zero if a record failed.
C3_ContinueExitsNonZeroAfterFailure ==
    (~opts.failFast /\ snapshot.encoded) =>
        /\ (Len(applied) > 0 /\ ~applied[Len(applied)].result /\ ~cin.eof)
              => pc = "restore"
        /\ (pc = "exited" /\ \E j \in 1..Len(applied) : ~applied[j].result)
              => exitCode # 0

\* C4 as claimed: reading a file written with base64 names, the moveWindow
\* calls made so far are for the first records of the snapshot, in order and
\* with the same five values, and when the process has exited without a
\* failed command there was one call per record.
C4_RoundTrip ==
    (tree = <<>> /\ snapshot.encoded) =>
        /\ IsPrefix(AppliedRecords, snapshot.records)
        /\ (pc = "exited" /\ \A j \in 1..Len(applied) : applied[j].result)
              => AppliedRecords = snapshot.records

RECURSIVE Fields(_, _)
\* the whitespace-separated fields of a line from position pos on
Fields(line, pos) ==
    LET from == SkipSpace(line, pos)
        to == TokenEnd(line, from)
    IN IF from > Len(line) THEN <<>>
       ELSE <<SubSeq(line, from, to - 1)>> \o Fields(line, to)

\* C9 as claimed: every line written for a window splits on whitespace into
\* exactly five fields: the output name, the workspace name, the workspace
\* id, the window id and the window title, as written.
C9_FiveFields ==
    \A k \in 1..Len(emitted) :
        Fields(cout[k], 1) =
            << Encoded(emitted[k].outputName, opts.encodeStrings),
               Encoded(emitted[k].workspaceName, opts.encodeStrings),
               to_string(emitted[k].workspaceId),
               to_string(emitted[k].windowId),
               Encoded(emitted[k].windowTitle, opts.encodeStrings) >>

\* a name with every space replaced by '_'
Placeholder(name) == [k \in 1..Len(name) |-> IF name[k] = SP THEN 95 ELSE name[k]]

\* C10 as claimed: with -r the line written for a window holds its three
\* names with every space replaced by '_', and restore with -r reads the
\* title of a record of such a file back in that form.
C10_RawNamesUsePlaceholder ==
    /\ ~opts.encodeStrings =>
          \A k \in 1..Len(emitted) :
              cout[k] = Line(Placeholder(emitted[k].outputName),
                             Placeholder(emitted[k].workspaceName),
                             emitted[k].workspaceId, emitted[k].windowId,
                             Placeholder(emitted[k].windowTitle))
    /\ (tree = <<>> /\ ~snapshot.encoded /\ ~opts.encodeStrings) =>
          \A j \in 1..Len(applied) :
              j <= Len(snapshot.records) =>
                  applied[j].windowTitle = Placeholder(snapshot.records[j].windowTitle)

RECURSIVE LinesOf(_, _)
\* the lines of a text from position pos on, without their newlines
LinesOf(text, pos) ==
    IF pos > Len(text) THEN <<>>
    ELSE LET nl == CHOOSE k \in pos..(Len(text) + 1) :
                       /\ k = Len(text) + 1 \/ text[k] = LF
                       /\ \A m \in pos..(k - 1) : text[m] # LF
         IN <<SubSeq(text, pos, nl - 1)>> \o LinesOf(text, nl + 1)

\* a non-empty string of decimal digits
IsUnsigned(str) == Len(str) > 0 /\ \A k \in 1..Len(str) : IsDigit(str[k])

\* a line with fewer than five fields, or whose third or fourth field is no
\* unsigned integer
Malformed(line) ==
    LET f == Fields(line, 1)
    IN \/ Len(f) < 5
       \/ ~IsUnsigned(f[3])
       \/ ~IsUnsigned(f[4])

\* C11 as claimed: a restore run over a hand-edited file with a malformed
\* line ends by the failure policy: with failFast the process exits with
\* code 1; with -c the failure is reported on cerr, the file is read to its
\* end and the process is never ended by the malformed line.
C11_MalformedLineFailsRecord ==
    ( /\ tree = <<>>
      /\ snapshot.records = <<>>
      /\ pc = "exited"
      /\ \E k \in 1..Len(LinesOf(cin.buf, 1)) : Malformed(LinesOf(cin.buf, 1)[k]) ) =>
        /\ opts.failFast => exitCode = 1
        /\ ~opts.failFast => (cin.eof /\ Len(cerr) >= 1 /\ exitCode \in {0, 1})

\* C12 as claimed: with -d, every record handed to moveWindow has both of
\* its command strings echoed on cout, the workspace command first, whatever
\* send_command answered, also when the workspace command failed.
C12_BothCommandsEchoedForEveryRecord ==
    (tree = <<>> /\ opts.debug) =>
        /\ Len(cout) = 2 * Len(applied)
        /\ \A j \in 1..Len(applied) :
              LET a == applied[j]
              IN /\ cout[2 * j - 1] =
                        Echo(wsCmd(a.outputName, a.workspaceName, a.workspaceId, opts))
                 /\ cout[2 * j] =
                        Echo(windowCmd(a.windowId, a.workspaceName, a.windowTitle, opts))

\* C12, amended: with -d, cout holds one echo per command submitted and
\* nothing else; the echo of a command is the last line written when the
\* command is submitted; the workspace command of every record is echoed
\* whatever it returned, its window command only if the workspace command
\* succeeded. Without -d nothing is echoed.
C12_SubmittedCommandsEchoedFirst ==
    tree = <<>> =>
        /\ ~opts.debug => cout = <<>>
        /\ opts.debug =>
              /\ Len(cout) = Len(sent)
              /\ \A k \in 1..Len(sent) :
                    /\ sent[k].echoed = k
                    /\ cout[k] = <<105, 51, 45, 109, 115, 103, 32>> \o sent[k].cmd
              /\ \A j \in 1..Len(applied) :
                    LET cs == CallsOf(j)
                        a == applied[j]
                    IN /\ Len(cs) = IF cs[1].ok THEN 2 ELSE 1
                       /\ cs[1].cmd = wsCmd(a.outputName, a.workspaceName,
                                            a.workspaceId, opts)
                       /\ Len(cs) = 2 =>
                              cs[2].cmd = windowCmd(a.windowId, a.workspaceName,
                                                    a.windowTitle, opts)

\* a -d run with a record whose workspace command failed, echoed alone, and
\* a record whose two commands were echoed and sent
C12_Witness ==
    /\ tree = <<>>
    /\ opts.debug
    /\ \E j \in 1..Len(applied) : Len(CallsOf(j)) = 1 /\ ~CallsOf(j)[1].ok
    /\ \E j \in 1..Len(applied) : Len(CallsOf(j)) = 2
    /\ Len(cout) = Len(sent)
    /\ Len(cout) < 2 * Len(applied)

\* [con_id=<id>]
SelectById(id) == <<91, 99, 111, 110, 95, 105, 100, 61>> \o to_string(id) \o <<93>>

\* [<key>="<name>"]
SelectByName(key, name) == <<91>> \o key \o <<61, 34>> \o name \o <<34, 93>>

\* C13: the two commands of every moveWindow call follow the addressing
\* option: by default the workspace command selects [con_id=workspaceId] and
\* the window command [con_id=windowId]; with -t the workspace command
\* selects [workspace="workspaceName"] and the window command
\* [title="windowTitle"]. Either way the workspace command ends with
\* 'move workspace to output outputName' and the window command with
\* 'move container to workspace "workspaceName"'.
C13_AddressingGovernsBothCommands ==
    tree = <<>> =>
        \A j \in 1..Len(applied) :
            LET cs == CallsOf(j)
                a == applied[j]
                byTitle == opts.windowIdentifier = WINDOW_TITLE
                wsSel == IF byTitle THEN SelectByName(<<119, 111, 114, 107, 115, 112, 97, 99, 101>>, a.workspaceName)
                         ELSE SelectById(a.workspaceId)
                winSel == IF byTitle THEN SelectByName(<<116, 105, 116, 108, 101>>, a.windowTitle)
                          ELSE SelectById(a.windowId)
            IN /\ cs[1].which = "workspace"
               /\ cs[1].cmd = wsSel \o <<32, 109, 111, 118, 101, 32, 119, 111, 114, 107, 115, 112, 97, 99, 101, 32, 116, 111, 32, 111, 117, 116, 112, 117, 116, 32>> \o a.outputName
               /\ Len(cs) = 2 =>
                     /\ cs[2].which = "window"
                     /\ cs[2].cmd = winSel \o <<32, 109, 111, 118, 101, 32, 99, 111, 110, 116, 97, 105, 110, 101, 114, 32, 116, 111, 32, 119, 111, 114, 107, 115, 112, 97, 99, 101, 32>>
                                        \o <<34>> \o a.workspaceName \o <<34>>

\* a -t run that sent both commands of a record whose workspace name and
\* title differ from its ids
C13_Witness ==
    /\ tree = <<>>
    /\ opts.windowIdentifier = WINDOW_TITLE
    /\ \E j \in 1..Len(applied) :
          /\ Len(CallsOf(j)) = 2
          /\ applied[j].workspaceName # to_string(applied[j].workspaceId)
          /\ applied[j].windowTitle # to_string(applied[j].windowId)
          /\ applied[j].windowTitle # <<>>

-----------------------------------------------------------------------------
(* Claims about the traversal state (SpecWalk) *)

\* the TreeState that holds what the output and the workspace visited last
\* before the k-th visit set, whatever their place in the tree
LastSeen(k) ==
    LET o == LastVisitedBefore(k, "output")
        w == LastVisitedBefore(k, "workspace")
    IN [ outputName |-> IF o = 0 THEN <<>> ELSE tree[o].name,
         workspaceName |-> IF w = 0 THEN <<>> ELSE tree[w].name,
         workspaceId |-> IF w = 0 THEN 0 ELSE tree[w].id ]

\* C14: the traversal state is never restored when the walk returns from a
\* subtree: in every state of the walk it holds what the last output and
\* the last workspace visited so far have set, wherever the walk stands
\* in the tree by then; so every record carries the output name and the
\* workspace name and id that were last seen when its window was visited,
\* also when that output or workspace is no ancestor of the window.
C14_StateNeverRestoredOnBacktrack ==
    tree # <<>> =>
        /\ treeState = LastSeen(Len(visited) + 1)
        /\ \A k \in 1..Len(emitted) :
              LET r == emitted[k]
                  seen == LastSeen(VisitOf(r.node))
              IN /\ WindowNode(tree, r.node)
                 /\ r.outputName = seen.outputName
                 /\ r.workspaceName = seen.workspaceName
                 /\ r.workspaceId = seen.workspaceId

\* a record emitted for a window that is neither below the output nor below
\* the workspace whose names it carries: the walk had left both subtrees
C14_Witness ==
    /\ tree # <<>>
    /\ \E k \in 1..Len(emitted) :
          LET r == emitted[k]
              o == LastVisitedBefore(VisitOf(r.node), "output")
              w == LastVisitedBefore(VisitOf(r.node), "workspace")
          IN /\ o # 0 /\ ~Above(tree, o, r.node)
             /\ w # 0 /\ ~Above(tree, w, r.node)
             /\ r.outputName = tree[o].name
             /\ r.workspaceId = tree[w].id

\* the workspace containers visited so far
VisitedWorkspaces ==
    { visited[k] : k \in { j \in 1..Len(visited) : tree[visited[j]].type = "workspace" } }

\* the name and the id are those of workspace container w
OfWorkspace(name, id, w) == tree[w].name = name /\ tree[w].id = id

\* C16: in every state of the walk the workspace name and the workspace id
\* of the traversal state are those of one workspace container visited so
\* far (both still initial if none was), and the workspace name and id of
\* every record are those of one workspace container of the tree: no
\* record pairs the name of one workspace with the id of another.
C16_WorkspaceNameAndIdFromOneNode ==
    tree # <<>> =>
        /\ IF VisitedWorkspaces = {}
           THEN treeState.workspaceName = <<>> /\ treeState.workspaceId = 0
           ELSE \E w \in VisitedWorkspaces :
                    OfWorkspace(treeState.workspaceName, treeState.workspaceId, w)
        /\ \A k \in 1..Len(emitted) :
              LET r == emitted[k]
              IN /\ \E w \in VisitedWorkspaces :
                        OfWorkspace(r.workspaceName, r.workspaceId, w)
                 /\ \A w \in 1..Len(tree) :
                        (tree[w].type = "workspace"
                            /\ (tree[w].name = r.workspaceName
                                    \/ tree[w].id = r.workspaceId))
                        => OfWorkspace(r.workspaceName, r.workspaceId, w)

\* a record emitted after two workspaces were visited, carrying the name and
\* the id of the second
C16_Witness ==
    /\ tree # <<>>
    /\ Cardinality(VisitedWorkspaces) >= 2
    /\ \E k \in 1..Len(emitted) :
          LET r == emitted[k]
              w == LastVisitedBefore(VisitOf(r.node), "workspace")
              first == visited[CHOOSE j \in 1..Len(visited) :
                                  /\ tree[visited[j]].type = "workspace"
                                  /\ \A x \in 1..(j - 1) :
                                        tree[visited[x]].type # "workspace"]
          IN /\ w # first
             /\ OfWorkspace(r.workspaceName, r.workspaceId, w)

-----------------------------------------------------------------------------
(* Claims about the restore loop (Spec) *)

\* C15 as claimed: restoring a file of N complete lines written by capture
\* with base64 names, each ending with a newline, with every command
\* succeeding: once the process has exited, moveWindow was applied to
\* exactly the N records in their order, two commands were sent per record
\* and none again after the end of the input, and the exit code is 0; for
\* N = 0 nothing was sent.
C15_EachLineAppliedOnce ==
    ( /\ tree = <<>>
      /\ snapshot.encoded
      /\ opts.encodeStrings
      /\ cin.buf = FileOf(snapshot.records, TRUE)
      /\ \A j \in 1..Len(snapshot.records) : snapshot.records[j].windowTitle # <<>>
      /\ \A k \in 1..Len(sent) : sent[k].ok
      /\ pc = "exited" ) =>
        /\ exitCode = 0
        /\ AppliedRecords = snapshot.records
        /\ Len(sent) = 2 * Len(snapshot.records)

====
